---- MODULE Spec2Model ----
(***************************************************************************)
(* State-machine model of api/webhook.js: the webhook handler of a voice   *)
(* bot.  reqs holds the requests of the process, one record each.  The     *)
(* handler runs synchronously up to its next await, so one action is the   *)
(* code between two awaits: it consumes the outcome of the outstanding     *)
(* outbound call and runs on until the next call is issued or the          *)
(* response is sent.                                                       *)
(***************************************************************************)
EXTENDS Integers, Sequences, FiniteSets, TLC

VARIABLES reqs, audioCache

vars == <<reqs, audioCache>>

\* ------------------------------------------------------------------ bounds
NumChats == 2
NumFiles == 2

Chats == 1..NumChats
Files == 1..NumFiles

\* The slots of the process for requests served at the same time.
Reqs == {1, 2}

\* Values the code only passes through: the id of the message sendMessage
\* answers, the file path getFile answers, the bytes of the download, the id
\* of a callback query.
MsgIds == {1}
Paths == {1}
Audios == {1}
CallbackIds == {1}

\* ---------------------------------------------------------- optional values
\* A JavaScript value that may be undefined/null: <<>> or <<v>>.
None == <<>>
Some(v) == <<v>>
Has(o) == Len(o) > 0
Val(o) == o[1]

\* ------------------------------------------------------------------- texts
\* The fixed texts of the source, each named by what it says.
ProcessingText == <<"processing">>
RecognitionFailedText == <<"could not recognize speech">>
ErrorPrefix == "processing error: "
TranscriptionHeader == "<b>transcription:</b>"
Divider == "-----"
NoteHeader == "<b>note:</b>"
TranscribePrompt == "transcribe this audio"
NotePrompt == "turn the transcription into a note"

\* What the transcription / note services may answer as text.  "" is the
\* empty string, which JavaScript's || treats like a missing text.
TranscriptionTexts == {"", "hello"}
NoteTexts == {"", "note"}

\* error.message of the exceptions of the model
FetchFailed == "fetch failed"
TypeErrorMsg == "cannot read properties of undefined"
ServiceErrors == {"quota exceeded"}

\* ---------------------------------------------------------------- requests
\* message.chat, message.voice
ChatObjs == {None} \cup {Some([id |-> c]) : c \in Chats}
VoiceObjs == {None} \cup {Some([file_id |-> f]) : f \in Files}

\* message.reply_to_message
ReplyObjs ==
    {None} \cup
    {Some([chat |-> c, voice |-> v, reply_to_message |-> None]) :
        c \in ChatObjs, v \in VoiceObjs}

Messages ==
    {None} \cup
    {Some([chat |-> c, voice |-> v, reply_to_message |-> r]) :
        c \in ChatObjs, v \in VoiceObjs, r \in ReplyObjs}

CallbackQueries == {None} \cup {Some([id |-> i]) : i \in CallbackIds}

\* req.body: missing (None), or an update.  A body that is no update at all
\* (a string, an empty object) reads as an update with neither field.
Bodies ==
    {None} \cup
    {Some([message |-> m, callback_query |-> q]) :
        m \in Messages, q \in CallbackQueries}

Methods == {"POST", "GET", "PUT"}

\* ------------------------------------------------------ outbound call records
NA == 0
NoArg == <<"", NA>>

\* Buffer.from(audioBuffer).toString('base64'): the encoded form of the bytes
Base64(audio) == <<"base64", audio>>

Call(op, chat, mid, text, mode, arg) ==
    [op |-> op, chat_id |-> chat, message_id |-> mid, text |-> text,
     parse_mode |-> mode, arg |-> arg]

SendMessageCall(chatId, text, mode) ==
    Call("sendMessage", chatId, NA, text, mode, NoArg)

EditMessageCall(chatId, messageId, text) ==
    Call("editMessageText", chatId, messageId, text, "", NoArg)

DeleteMessageCall(chatId, messageId) ==
    Call("deleteMessage", chatId, messageId, <<>>, "", NoArg)

AnswerCallbackCall(callbackId) ==
    Call("answerCallbackQuery", NA, NA, <<>>, "",
         <<"callback_query_id", callbackId>>)

GetFileCall(fileId) ==
    Call("getFile", NA, NA, <<>>, "", <<"file_id", fileId>>)

DownloadCall(filePath) ==
    Call("download", NA, NA, <<>>, "", <<"file_path", filePath>>)

TranscriptionCall(base64Audio) ==
    Call("transcription", NA, NA, <<TranscribePrompt>>, "", base64Audio)

FormatCall(transcription) ==
    Call("formatAsNote", NA, NA, <<NotePrompt, transcription>>, "", NoArg)

\* -------------------------------------------------- outcomes of outbound calls
\* kind "ok": the call returned a payload with a result; "err": it returned
\* an error payload (no result); "throw": fetch or the decoding threw.
\* A generative-service payload carries error (optional message) and text
\* (optional first candidate's first text part) independently.
Outcome(kind, val, error, text, msg) ==
    [kind |-> kind, val |-> val, error |-> error, text |-> text, msg |-> msg]

Throws == {Outcome("throw", NA, None, None, FetchFailed)}

PlatformOutcomes(vals) ==
    {Outcome("ok", v, None, None, "") : v \in vals}
    \cup {Outcome("err", NA, None, None, "")} \cup Throws

OptErrors == {None} \cup {Some([message |-> e]) : e \in ServiceErrors}

ServiceOutcomes(texts) ==
    {Outcome("ok", NA, e, t, "") :
        e \in OptErrors, t \in {None} \cup {Some(x) : x \in texts}}
    \cup Throws

\* ------------------------------------------------------------ request state
NewRequest(method, body) ==
    [method |-> method, body |-> body, pc |-> "start",
     calls |-> <<>>, outs |-> <<>>, trace |-> <<>>, resp |-> <<>>,
     bodyRead |-> FALSE,
     chatId |-> NA, fileId |-> NA, processingMsg |-> None,
     filePath |-> NA, base64Audio |-> NoArg,
     transcription |-> None, note |-> None,
     caughtInFlow |-> <<>>, caughtInHandler |-> <<>>]

\* A slot of the process that holds no request.
Absent == [NewRequest("GET", None) EXCEPT !.pc = "absent"]

\* The requests in flight or answered.
Live == {r \in Reqs : reqs[r].pc # "absent"}

\* -------------------------------------------------------- building blocks
\* The trace records, in order, every call issued, every call completed
\* (by returning or by throwing) and every response sent; n is the index of
\* the call in calls.
Issue(st, call, pc) ==
    [st EXCEPT !.calls = Append(@, call),
               !.trace = Append(@, [ev |-> "issue", n |-> Len(st.calls) + 1]),
               !.pc = pc]

\* The outstanding call (the last one issued) completes with outcome o.
Resume(st, o) ==
    [st EXCEPT !.outs = Append(@, o),
               !.trace = Append(@, [ev |-> IF o.kind = "throw" THEN "throw"
                                           ELSE "return",
                                    n |-> Len(st.calls)])]

\* res.status(200).json({ ok: true })
Respond(st) ==
    [st EXCEPT !.resp = Append(@, [status |-> 200, body |-> [ok |-> TRUE]]),
               !.trace = Append(@, [ev |-> "respond", n |-> 0]),
               !.pc = "done"]

\* A handler whose catch block logs the exception and sends no response.
HandlerCatchNoResponse(st, from, msg) ==
    [st EXCEPT !.caughtInHandler = Append(@, [from |-> from, msg |-> msg]),
               !.pc = "done"]

\* handler's catch: an exception raised in `from` reached handler.
HandlerCatch(st, from, msg) ==
    Respond([st EXCEPT !.caughtInHandler =
                           Append(@, [from |-> from, msg |-> msg])])

\* A handler that acknowledges a callback whether or not the update has one.
AfterVoiceAlwaysAnswers(st) ==
    Issue(st, AnswerCallbackCall(NA), "answerCallback")

\* A handler that does not await handleCallback before it responds.
AfterVoiceFireAndForget(st) ==
    LET update == Val(st.body) IN
    IF Has(update.callback_query)
    THEN Respond(Issue(st,
                       AnswerCallbackCall(Val(update.callback_query).id),
                       "answerCallback"))
    ELSE Respond(st)

\* handler after the voice branch: the callback branch, then the response.
\* handleCallback issues answerCallback(callback.id).
AfterVoice(st) ==
    LET update == Val(st.body) IN
    IF Has(update.callback_query)
    THEN Issue(st, AnswerCallbackCall(Val(update.callback_query).id),
               "answerCallback")
    ELSE Respond(st)

\* processingMsg.result is defined
HasResult(processingMsg) ==
    Has(processingMsg) /\ Has(Val(processingMsg).result)

MessageIdOf(processingMsg) == Val(Val(processingMsg).result).message_id

ErrorText(msg) == <<ErrorPrefix, msg>>

FinalText(transcription, note) ==
    <<TranscriptionHeader, transcription, Divider, NoteHeader, note>>

\* A handleVoiceMessage without its try/catch: the exception leaves it.
FlowCatchRethrows(st, at, msg) == HandlerCatch(st, "handleVoiceMessage", msg)

\* handleVoiceMessage's catch of an exception raised at step `at` (the call
\* that threw, or the call whose arguments threw): the arguments of
\* editMessage are evaluated first, and
\* processingMsg.result.message_id throws a TypeError when the
\* interim sendMessage returned no result; that exception leaves
\* handleVoiceMessage.
FlowCatch(st, at, msg) ==
    LET st1 == [st EXCEPT !.caughtInFlow =
                              Append(@, [at |-> at, msg |-> msg])] IN
    IF HasResult(st1.processingMsg)
    THEN Issue(st1,
               EditMessageCall(st1.chatId, MessageIdOf(st1.processingMsg),
                               ErrorText(msg)),
               "errorEdit")
    ELSE HandlerCatch(st1, "handleVoiceMessage", TypeErrorMsg)

\* ------------------------------------------------- generative-service parsing
Threw(msg) == [threw |-> TRUE, msg |-> msg, value |-> None]
Returned(value) == [threw |-> FALSE, msg |-> "", value |-> value]

\* data.candidates?.[0]?.content?.parts?.[0]?.text, when truthy
UsableText(data) ==
    IF Has(data.text) /\ Val(data.text) # "" THEN data.text ELSE None

\* getTranscription after its fetch: o is the outcome of the fetch and decode.
getTranscription(o) ==
    IF o.kind = "throw" THEN Threw(o.msg)
    ELSE IF Has(o.error) THEN Threw(Val(o.error).message)
    ELSE Returned(UsableText(o))

\* A formatAsNote whose fallback is the missing text, not the transcription.
formatAsNoteNoFallback(o, transcription) ==
    IF o.kind = "throw" THEN Threw(o.msg)
    ELSE IF Has(UsableText(o)) THEN Returned(UsableText(o))
    ELSE Returned(Some(""))

\* formatAsNote after its fetch: no check of data.error.
formatAsNote(o, transcription) ==
    IF o.kind = "throw" THEN Threw(o.msg)
    ELSE IF Has(UsableText(o)) THEN Returned(UsableText(o))
    ELSE Returned(Some(transcription))

\* ------------------------------------------------------------------ handler
\* A handler that forgets to keep the chat of the replying message.
VoiceMessageOfKeepsOwnChat(message) ==
    IF Has(message.voice) THEN Some(message)
    ELSE IF Has(message.reply_to_message)
            /\ Has(Val(message.reply_to_message).voice)
    THEN message.reply_to_message
    ELSE None

\* A handler that looks at the replied-to message first.
VoiceMessageOfPrefersReply(message) ==
    IF Has(message.reply_to_message)
       /\ Has(Val(message.reply_to_message).voice)
    THEN Some([Val(message.reply_to_message) EXCEPT !.chat = message.chat])
    ELSE IF Has(message.voice) THEN Some(message)
    ELSE None

\* The message to process: the message itself when it has a voice, else the
\* replied-to message (with the chat of the replying message) when that has
\* a voice, else none.
VoiceMessageOf(message) ==
    IF Has(message.voice) THEN Some(message)
    ELSE IF Has(message.reply_to_message)
            /\ Has(Val(message.reply_to_message).voice)
    THEN Some([Val(message.reply_to_message) EXCEPT !.chat = message.chat])
    ELSE None

\* handleVoiceMessage up to its first await: message.chat.id throws a
\* TypeError when the message has no chat (outside the try block).
EnterVoice(st, message) ==
    IF ~Has(message.chat)
    THEN HandlerCatch(st, "handleVoiceMessage", TypeErrorMsg)
    ELSE LET chatId == Val(message.chat).id
             fileId == Val(message.voice).file_id
         IN Issue([st EXCEPT !.chatId = chatId, !.fileId = fileId],
                  SendMessageCall(chatId, ProcessingText, ""),
                  "interim")

\* A handler without the check of the method.
HandlerEntryAnyMethod(st) ==
    LET st1 == [st EXCEPT !.bodyRead = TRUE] IN
    IF ~Has(st1.body) THEN HandlerCatch(st1, "handler", TypeErrorMsg)
    ELSE LET message == Val(st1.body).message IN
         IF Has(message) /\ Has(VoiceMessageOf(Val(message)))
         THEN EnterVoice(st1, Val(VoiceMessageOf(Val(message))))
         ELSE AfterVoice(st1)

\* handler up to its first await.  update.message throws a TypeError when
\* the body is missing.
HandlerEntry(st) ==
    IF st.method # "POST" THEN Respond(st)
    ELSE LET st1 == [st EXCEPT !.bodyRead = TRUE] IN
         IF ~Has(st1.body) THEN HandlerCatch(st1, "handler", TypeErrorMsg)
         ELSE LET message == Val(st1.body).message IN
              IF Has(message) /\ Has(VoiceMessageOf(Val(message)))
              THEN EnterVoice(st1, Val(VoiceMessageOf(Val(message))))
              ELSE AfterVoice(st1)

\* --------------------------------------------------------- handleVoiceMessage
\* const processingMsg = await sendMessage(...): outside the try block, so a
\* throw leaves handleVoiceMessage.  Then getFile is issued.
AfterInterim(st, o) ==
    IF o.kind = "throw" THEN HandlerCatch(st, "handleVoiceMessage", o.msg)
    ELSE LET result == IF o.kind = "ok" THEN Some([message_id |-> o.val])
                       ELSE None
         IN Issue([st EXCEPT !.processingMsg = Some([result |-> result])],
                  GetFileCall(st.fileId), "getFile")

\* A flow that asks for the file again when getFile threw.
AfterGetFileRetries(st, o) ==
    IF o.kind = "throw" THEN Issue(st, GetFileCall(st.fileId), "getFile")
    ELSE IF o.kind = "err" THEN FlowCatch(st, "getFile", TypeErrorMsg)
    ELSE Issue([st EXCEPT !.filePath = o.val], DownloadCall(o.val), "download")

\* fileData.result.file_path throws a TypeError on an error payload.
AfterGetFile(st, o) ==
    IF o.kind = "throw" THEN FlowCatch(st, "getFile", o.msg)
    ELSE IF o.kind = "err" THEN FlowCatch(st, "getFile", TypeErrorMsg)
    ELSE Issue([st EXCEPT !.filePath = o.val], DownloadCall(o.val), "download")

\* The body of the download is encoded whatever its status.
AfterDownload(st, o) ==
    IF o.kind = "throw" THEN FlowCatch(st, "download", o.msg)
    ELSE Issue([st EXCEPT !.base64Audio = Base64(o.val)],
               TranscriptionCall(Base64(o.val)), "transcription")

AfterTranscription(st, o) ==
    LET r == getTranscription(o) IN
    IF r.threw THEN FlowCatch(st, "transcription", r.msg)
    ELSE IF ~Has(r.value)
    THEN IF HasResult(st.processingMsg)
         THEN Issue(st,
                    EditMessageCall(st.chatId, MessageIdOf(st.processingMsg),
                                    RecognitionFailedText),
                    "noticeEdit")
         ELSE FlowCatch(st, "noticeEdit", TypeErrorMsg)
    ELSE Issue([st EXCEPT !.transcription = r.value],
               FormatCall(Val(r.value)), "format")

\* A flow that sends the final message without deleting the interim one.
AfterFormatSkipsDelete(st, o) ==
    LET r == formatAsNote(o, Val(st.transcription)) IN
    IF r.threw THEN FlowCatch(st, "format", r.msg)
    ELSE Issue([st EXCEPT !.note = r.value],
               SendMessageCall(st.chatId,
                               FinalText(Val(st.transcription), Val(r.value)),
                               "HTML"),
               "final")

\* const note = await formatAsNote(transcription), then deleteMessage is
\* issued; its argument processingMsg.result.message_id throws a TypeError
\* when the interim sendMessage returned no result.
AfterFormat(st, o) ==
    LET r == formatAsNote(o, Val(st.transcription)) IN
    IF r.threw THEN FlowCatch(st, "format", r.msg)
    ELSE LET st1 == [st EXCEPT !.note = r.value] IN
         IF HasResult(st1.processingMsg)
         THEN Issue(st1,
                    DeleteMessageCall(st1.chatId,
                                      MessageIdOf(st1.processingMsg)),
                    "delete")
         ELSE FlowCatch(st1, "delete", TypeErrorMsg)

\* A flow that sends the final message whether or not deleteMessage threw.
AfterDeleteIgnoresThrow(st, o) ==
    Issue(st,
          SendMessageCall(st.chatId,
                          FinalText(Val(st.transcription), Val(st.note)),
                          "HTML"),
          "final")

AfterDelete(st, o) ==
    IF o.kind = "throw" THEN FlowCatch(st, "delete", o.msg)
    ELSE Issue(st,
               SendMessageCall(st.chatId,
                               FinalText(Val(st.transcription), Val(st.note)),
                               "HTML"),
               "final")

AfterFinal(st, o) ==
    IF o.kind = "throw" THEN FlowCatch(st, "final", o.msg) ELSE AfterVoice(st)

\* The edit to the recognition-failure notice is inside the try block.
AfterNoticeEdit(st, o) ==
    IF o.kind = "throw" THEN FlowCatch(st, "noticeEdit", o.msg)
    ELSE AfterVoice(st)

\* The edit of the catch block: a throw leaves handleVoiceMessage.
AfterErrorEdit(st, o) ==
    IF o.kind = "throw" THEN HandlerCatch(st, "handleVoiceMessage", o.msg)
    ELSE AfterVoice(st)

\* await handleCallback(update.callback_query), then the response.
AfterAnswer(st, o) ==
    IF o.kind = "throw" THEN HandlerCatch(st, "handleCallback", o.msg)
    ELSE Respond(st)

\* One step of a request: the code from one await to the next.
Step(st, o) ==
    CASE st.pc = "start" -> HandlerEntry(st)
      [] st.pc = "interim" -> AfterInterim(Resume(st, o), o)
      [] st.pc = "getFile" -> AfterGetFile(Resume(st, o), o)
      [] st.pc = "download" -> AfterDownload(Resume(st, o), o)
      [] st.pc = "transcription" -> AfterTranscription(Resume(st, o), o)
      [] st.pc = "format" -> AfterFormat(Resume(st, o), o)
      [] st.pc = "delete" -> AfterDelete(Resume(st, o), o)
      [] st.pc = "final" -> AfterFinal(Resume(st, o), o)
      [] st.pc = "noticeEdit" -> AfterNoticeEdit(Resume(st, o), o)
      [] st.pc = "errorEdit" -> AfterErrorEdit(Resume(st, o), o)
      [] st.pc = "answerCallback" -> AfterAnswer(Resume(st, o), o)
      [] OTHER -> st

\* ------------------------------------------------------------------ actions
\* A request arrives at handler, which runs to its first await.
Handler(r) ==
    /\ reqs[r].pc = "start"
    /\ reqs' = [reqs EXCEPT ![r] = HandlerEntry(@)]
    /\ UNCHANGED audioCache

\* The outstanding call of request r completes with some outcome and the
\* request runs on to its next await.
InterimReturns(r) ==
    /\ reqs[r].pc = "interim"
    /\ \E o \in PlatformOutcomes(MsgIds) :
           reqs' = [reqs EXCEPT ![r] = AfterInterim(Resume(@, o), o)]
    /\ UNCHANGED audioCache

GetFileReturns(r) ==
    /\ reqs[r].pc = "getFile"
    /\ \E o \in PlatformOutcomes(Paths) :
           reqs' = [reqs EXCEPT ![r] = AfterGetFile(Resume(@, o), o)]
    /\ UNCHANGED audioCache

\* A download step that memoizes the audio in the module-level cache.
DownloadReturnsCachesAudio(r) ==
    /\ reqs[r].pc = "download"
    /\ \E o \in PlatformOutcomes(Audios) :
           /\ reqs' = [reqs EXCEPT ![r] = AfterDownload(Resume(@, o), o)]
           /\ audioCache' = Append(audioCache, <<reqs[r].filePath, o.val>>)

DownloadReturns(r) ==
    /\ reqs[r].pc = "download"
    /\ \E o \in PlatformOutcomes(Audios) :
           reqs' = [reqs EXCEPT ![r] = AfterDownload(Resume(@, o), o)]
    /\ UNCHANGED audioCache

TranscriptionReturns(r) ==
    /\ reqs[r].pc = "transcription"
    /\ \E o \in ServiceOutcomes(TranscriptionTexts) :
           reqs' = [reqs EXCEPT ![r] = AfterTranscription(Resume(@, o), o)]
    /\ UNCHANGED audioCache

FormatReturns(r) ==
    /\ reqs[r].pc = "format"
    /\ \E o \in ServiceOutcomes(NoteTexts) :
           reqs' = [reqs EXCEPT ![r] = AfterFormat(Resume(@, o), o)]
    /\ UNCHANGED audioCache

DeleteReturns(r) ==
    /\ reqs[r].pc = "delete"
    /\ \E o \in PlatformOutcomes({NA}) :
           reqs' = [reqs EXCEPT ![r] = AfterDelete(Resume(@, o), o)]
    /\ UNCHANGED audioCache

FinalReturns(r) ==
    /\ reqs[r].pc = "final"
    /\ \E o \in PlatformOutcomes(MsgIds) :
           reqs' = [reqs EXCEPT ![r] = AfterFinal(Resume(@, o), o)]
    /\ UNCHANGED audioCache

NoticeEditReturns(r) ==
    /\ reqs[r].pc = "noticeEdit"
    /\ \E o \in PlatformOutcomes({NA}) :
           reqs' = [reqs EXCEPT ![r] = AfterNoticeEdit(Resume(@, o), o)]
    /\ UNCHANGED audioCache

ErrorEditReturns(r) ==
    /\ reqs[r].pc = "errorEdit"
    /\ \E o \in PlatformOutcomes({NA}) :
           reqs' = [reqs EXCEPT ![r] = AfterErrorEdit(Resume(@, o), o)]
    /\ UNCHANGED audioCache

AnswerReturns(r) ==
    /\ reqs[r].pc = "answerCallback"
    /\ \E o \in PlatformOutcomes({NA}) :
           reqs' = [reqs EXCEPT ![r] = AfterAnswer(Resume(@, o), o)]
    /\ UNCHANGED audioCache

Init ==
    /\ \E m \in Methods, b \in Bodies :
           reqs = [r \in Reqs |-> IF r = 1 THEN NewRequest(m, b) ELSE Absent]
    /\ audioCache = <<>>

RequestStep(r) ==
        \/ Handler(r)
        \/ InterimReturns(r)
        \/ GetFileReturns(r)
        \/ DownloadReturns(r)
        \/ TranscriptionReturns(r)
        \/ FormatReturns(r)
        \/ DeleteReturns(r)
        \/ FinalReturns(r)
        \/ NoticeEditReturns(r)
        \/ ErrorEditReturns(r)
        \/ AnswerReturns(r)

Next == \E r \in Reqs : RequestStep(r)

Spec == Init /\ [][Next]_vars

\* Every outbound call completes at last (it returns or throws), and the
\* event loop runs every request that can run.
FairSpec == Spec /\ \A r \in Reqs : WF_vars(RequestStep(r))

\* Two requests served by the same process at the same time: a voice
\* message in one chat, with a callback_query, and a reply, in another chat,
\* to a voice message.
ConcBodies ==
    <<Some([message |-> Some([chat |-> Some([id |-> 1]),
                              voice |-> Some([file_id |-> 1]),
                              reply_to_message |-> None]),
            callback_query |-> Some([id |-> 1])]),
      Some([message |->
                Some([chat |-> Some([id |-> 2]),
                      voice |-> None,
                      reply_to_message |->
                          Some([chat |-> Some([id |-> 1]),
                                voice |-> Some([file_id |-> 2]),
                                reply_to_message |-> None])]),
            callback_query |-> None])>>

InitConc ==
    /\ reqs = [r \in Reqs |-> NewRequest("POST", ConcBodies[r])]
    /\ audioCache = <<>>

SpecConc == InitConc /\ [][Next]_vars

\* ================================================================== claims
OkResponse == [status |-> 200, body |-> [ok |-> TRUE]]

IndicesOf(st, op) == {i \in DOMAIN st.calls : st.calls[i].op = op}

\* Call i of the request has completed / has completed by throwing.
Completed(st, i) == i <= Len(st.outs)
CallThrew(st, i) == Completed(st, i) /\ st.outs[i].kind = "throw"

IsFinalSend(c) == c.op = "sendMessage" /\ c.parse_mode = "HTML"

TextContains(text, token) == \E j \in DOMAIN text : text[j] = token

\* The update is one the platform can send: a message, if any, has a chat.
WellFormed(st) ==
    Has(st.body) /\
    (Has(Val(st.body).message) => Has(Val(Val(st.body).message).chat))

HasCallback(st) == Has(st.body) /\ Has(Val(st.body).callback_query)

\* ---------------------------------------------------------------------- C1
\* C1: every POST request, whatever its body and whatever its outbound calls
\* do, has sent no response while it runs and exactly one response, 200
\* {ok:true}, once it has ended; it never ends without a response, and a
\* request that has not ended can always take its next step.
C1_ExactlyOneOkResponse ==
    \A r \in Live :
        LET st == reqs[r] IN
        st.method = "POST" =>
            /\ st.resp = (IF st.pc = "done" THEN <<OkResponse>> ELSE <<>>)
            /\ st.pc # "done" => ENABLED RequestStep(r)

\* A POST whose voice flow had an outbound call return an error payload and
\* another one throw up to handler, answered 200.
C1_Witness ==
    \E r \in Live :
        LET st == reqs[r] IN
        /\ st.method = "POST" /\ st.pc = "done"
        /\ st.resp = <<OkResponse>>
        /\ st.caughtInHandler # <<>>
        /\ \E i \in DOMAIN st.outs : st.outs[i].kind = "err"
        /\ \E i \in DOMAIN st.outs : st.outs[i].kind = "throw"

\* ---------------------------------------------------------------------- C2
ThrowingSteps ==
    {"getFile", "download", "transcription", "format", "delete", "final"}

\* C2: when one of getFile, download, transcription, reformatting,
\* deleteMessage, final sendMessage (or the evaluation of its arguments)
\* threw, the request has issued exactly one editMessageText, whose text
\* contains the error's message, and no final sendMessage has returned.
C2_OneErrorEditNoFinal ==
    \A r \in Live :
        LET st == reqs[r] IN
        (/\ st.pc = "done"
         /\ st.caughtInFlow # <<>>
         /\ st.caughtInFlow[1].at \in ThrowingSteps)
        => /\ Cardinality(IndicesOf(st, "editMessageText")) = 1
           /\ \A i \in IndicesOf(st, "editMessageText") :
                  TextContains(st.calls[i].text, st.caughtInFlow[1].msg)
           /\ \A i \in DOMAIN st.calls :
                  IsFinalSend(st.calls[i]) => CallThrew(st, i)

\* ---------------------------------------------------------------------- C3
\* The transcription service answered without an error object and without
\* usable text.
TranscriptionHadNoText(st) ==
    \E i \in IndicesOf(st, "transcription") :
        /\ Completed(st, i)
        /\ st.outs[i].kind = "ok"
        /\ ~Has(st.outs[i].error)
        /\ ~Has(UsableText(st.outs[i]))

\* C3: when the transcription service answered with no usable text and no
\* error object, the request has issued exactly one editMessageText, the
\* recognition-failure notice for the interim message, and no reformatting,
\* deleteMessage or final sendMessage call.
C3_OneNoticeEditOnly ==
    \A r \in Live :
        LET st == reqs[r] IN
        (st.pc = "done" /\ TranscriptionHadNoText(st))
        => /\ Cardinality(IndicesOf(st, "editMessageText")) = 1
           /\ \A i \in IndicesOf(st, "editMessageText") :
                  /\ st.calls[i].text = RecognitionFailedText
                  /\ st.calls[i].chat_id = st.chatId
                  /\ HasResult(st.processingMsg)
                  /\ st.calls[i].message_id = MessageIdOf(st.processingMsg)
           /\ IndicesOf(st, "formatAsNote") = {}
           /\ IndicesOf(st, "deleteMessage") = {}
           /\ \A i \in DOMAIN st.calls : ~IsFinalSend(st.calls[i])

\* ---------------------------------------------------------------------- C4
FromVoiceFlow(st) ==
    {i \in DOMAIN st.caughtInHandler :
        st.caughtInHandler[i].from = "handleVoiceMessage"}

InTry(c) ==
    \/ c.op \in {"getFile", "download", "transcription", "formatAsNote",
                 "deleteMessage"}
    \/ IsFinalSend(c)
    \/ c.op = "editMessageText" /\ c.text = RecognitionFailedText

IsErrorEdit(c) ==
    c.op = "editMessageText" /\ Len(c.text) = 2 /\ c.text[1] = ErrorPrefix

C5_CallbackAlwaysAnswered ==
    \A r \in Live :
        LET st == reqs[r] IN
        (/\ st.method = "POST" /\ st.pc = "done"
         /\ WellFormed(st) /\ HasCallback(st))
        => /\ Cardinality(IndicesOf(st, "answerCallbackQuery")) = 1
           /\ \A i \in IndicesOf(st, "answerCallbackQuery") :
                  st.calls[i] =
                      AnswerCallbackCall(Val(Val(st.body).callback_query).id)

\* ---------------------------------------------------------------------- C6
\* The update is a reply, received in some chat, to a message with a voice,
\* and has no voice of its own.
IsReplyToVoice(st) ==
    /\ st.method = "POST" /\ WellFormed(st)
    /\ Has(Val(st.body).message)
    /\ LET message == Val(Val(st.body).message) IN
       /\ ~Has(message.voice)
       /\ Has(message.reply_to_message)
       /\ Has(Val(message.reply_to_message).voice)

\* The direct voice message with the same file id in the same chat.
DirectTwin(body) ==
    LET message == Val(Val(body).message) IN
    Some([Val(body) EXCEPT !.message =
              Some([chat |-> message.chat,
                    voice |-> Val(message.reply_to_message).voice,
                    reply_to_message |-> None])])

\* The request st0 run on the outcomes outs, one step per outcome.
RECURSIVE RunOn(_, _)
RunOn(st0, outs) ==
    IF outs = <<>> \/ st0.pc = "done" THEN st0
    ELSE RunOn(Step(st0, Head(outs)), Tail(outs))

ChatDirected == {"sendMessage", "editMessageText", "deleteMessage"}

\* C6: a reply to a voice message issues, step for step, the calls (and
\* sends the response) that the direct voice message with the same file id
\* in the same chat issues on the same outcomes, and each of its
\* chat-directed calls goes to the chat of the replying message.
C6_ReplyRunsLikeDirectVoice ==
    \A r \in Live :
        LET st == reqs[r] IN
        (IsReplyToVoice(st) /\ st.pc # "start")
        => LET twin == RunOn(HandlerEntry(NewRequest(st.method,
                                                     DirectTwin(st.body))),
                             st.outs)
               c == Val(Val(Val(st.body).message).chat).id
           IN /\ twin.calls = st.calls
              /\ twin.outs = st.outs
              /\ twin.trace = st.trace
              /\ twin.resp = st.resp
              /\ twin.pc = st.pc
              /\ \A i \in DOMAIN st.calls :
                     st.calls[i].op \in ChatDirected
                     => st.calls[i].chat_id = c

\* A reply in one chat to a voice message of another chat was processed to
\* the final combined message.
C6_Witness ==
    \E r \in Live :
        LET st == reqs[r] IN
        /\ IsReplyToVoice(st) /\ st.pc = "done"
        /\ LET message == Val(Val(st.body).message) IN
           /\ Has(Val(message.reply_to_message).chat)
           /\ Val(message.reply_to_message).chat # message.chat
        /\ \E i \in DOMAIN st.calls :
               IsFinalSend(st.calls[i]) /\ Completed(st, i)
                   /\ ~CallThrew(st, i)

\* ---------------------------------------------------------------------- C7
\* C7: each answer of the generative service that carries a top-level error
\* object, to the transcription call or to the reformatting call, is raised
\* as an exception carrying the service's message.
C7_ServiceErrorRaised ==
    \A r \in Live :
        LET st == reqs[r] IN
        \A i \in DOMAIN st.outs :
            (/\ st.calls[i].op \in {"transcription", "formatAsNote"}
             /\ st.outs[i].kind = "ok"
             /\ Has(st.outs[i].error))
            => /\ st.caughtInFlow # <<>>
               /\ st.caughtInFlow[1].msg = Val(st.outs[i].error).message

\* ---------------------------------------------------------------------- C8
\* The reformatting call i answered without usable text.
FormatHadNoText(st, i) ==
    /\ st.calls[i].op = "formatAsNote"
    /\ Completed(st, i)
    /\ st.outs[i].kind = "ok"
    /\ ~Has(UsableText(st.outs[i]))

\* The note section of a final message: what follows the note header.
NoteSection(text) ==
    LET k == CHOOSE j \in DOMAIN text : text[j] = NoteHeader
    IN SubSeq(text, k + 1, Len(text))

FinalSends(st) == {i \in DOMAIN st.calls : IsFinalSend(st.calls[i])}

\* C8 as stated: when the transcription is t and the reformatting service
\* answered without usable text, the request has issued deleteMessage and
\* the final combined message, whose note section is t (stated here for the
\* requests whose interim message was sent and has an id).
C8_FallbackAlwaysSendsFinal ==
    \A r \in Live :
        LET st == reqs[r] IN
        (/\ st.pc = "done" /\ HasResult(st.processingMsg)
         /\ \E i \in DOMAIN st.calls : FormatHadNoText(st, i))
        => /\ IndicesOf(st, "deleteMessage") # {}
           /\ FinalSends(st) # {}
           /\ \A j \in FinalSends(st) :
                  NoteSection(st.calls[j].text) = st.transcription

\* C8 as amended: when the transcription is t and the reformatting service
\* answered without usable text, the note is t and the flow goes on:
\* deleteMessage for the interim message is the next call when the interim
\* sendMessage returned a message id (else no further call of the try block
\* is made), the final combined message is the call after it when
\* deleteMessage did not throw (else no final message is issued), and the
\* note section of that final message is t verbatim.
C8_FallbackNoteIsTranscription ==
    \A r \in Live :
        LET st == reqs[r] IN
        \A i \in DOMAIN st.calls :
            FormatHadNoText(st, i)
            => /\ st.note = st.transcription
               /\ Has(st.transcription)
               /\ IF HasResult(st.processingMsg)
                  THEN /\ Len(st.calls) > i
                       /\ st.calls[i + 1] =
                              DeleteMessageCall(st.chatId,
                                                MessageIdOf(st.processingMsg))
                  ELSE /\ IndicesOf(st, "deleteMessage") = {}
                       /\ FinalSends(st) = {}
               /\ (Completed(st, i + 1) /\ ~CallThrew(st, i + 1))
                  => /\ Len(st.calls) > i + 1
                     /\ st.calls[i + 2] =
                            SendMessageCall(st.chatId,
                                            FinalText(Val(st.transcription),
                                                      Val(st.transcription)),
                                            "HTML")
               /\ CallThrew(st, i + 1) => FinalSends(st) = {}
               /\ \A j \in FinalSends(st) :
                      NoteSection(st.calls[j].text) = st.transcription

\* The reformatting service answered without text, the interim message was
\* deleted and the final message, with the transcription as its note, sent.
C8_Witness ==
    \E r \in Live :
        LET st == reqs[r] IN
        /\ st.pc = "done"
        /\ \E i \in DOMAIN st.calls :
               /\ FormatHadNoText(st, i)
               /\ Len(st.calls) >= i + 2
               /\ st.calls[i + 1].op = "deleteMessage"
               /\ IsFinalSend(st.calls[i + 2])
               /\ NoteSection(st.calls[i + 2].text) = <<"hello">>
               /\ Completed(st, i + 2) /\ ~CallThrew(st, i + 2)

\* ---------------------------------------------------------------------- C9
\* Both generative calls answered with usable text (and were not raised).
BothReturnedText(st) ==
    /\ Has(st.transcription) /\ Has(st.note)
    /\ \E i \in IndicesOf(st, "formatAsNote") :
           /\ Completed(st, i) /\ st.outs[i].kind = "ok"
           /\ Has(UsableText(st.outs[i]))

\* Where in the trace call i was issued / completed.
IssuedAt(st, i) ==
    CHOOSE k \in DOMAIN st.trace :
        st.trace[k].ev = "issue" /\ st.trace[k].n = i

ReturnedBefore(st, i, k) ==
    \E j \in 1..(k - 1) : st.trace[j].ev = "return" /\ st.trace[j].n = i

\* transcription, then the divider, then the note
InOrder(text, t, n) ==
    \E a, b, c \in DOMAIN text :
        a < b /\ b < c /\ text[a] = t /\ text[b] = Divider /\ text[c] = n

FinalIsWellFormedAndAfterDelete(st) ==
    \A j \in FinalSends(st) :
        /\ st.calls[j].chat_id = st.chatId
        /\ InOrder(st.calls[j].text, Val(st.transcription), Val(st.note))
        /\ \E d \in IndicesOf(st, "deleteMessage") :
               /\ d < j
               /\ st.calls[d].message_id = MessageIdOf(st.processingMsg)
               /\ IssuedAt(st, d) < IssuedAt(st, j)
               /\ ReturnedBefore(st, d, IssuedAt(st, j))

\* C9 as stated: when transcription and reformatting both answered with
\* text, the request has issued exactly one final sendMessage (HTML), with
\* the transcription, the divider and the note in this order, after
\* deleteMessage was issued and completed (stated here for the requests
\* whose interim message was sent and has an id).
C9_AlwaysOneFinalAfterDelete ==
    \A r \in Live :
        LET st == reqs[r] IN
        (st.pc = "done" /\ HasResult(st.processingMsg) /\ BothReturnedText(st))
        => /\ Cardinality(FinalSends(st)) = 1
           /\ FinalIsWellFormedAndAfterDelete(st)

\* C9 as amended: when transcription and reformatting both answered with
\* text, the request issues at most one final sendMessage (HTML), and
\* exactly one if and only if deleteMessage for the interim message was
\* issued (the interim sendMessage returned a message id) and returned
\* without throwing; that final message holds the transcription, the
\* divider and the note in this order and is issued only after deleteMessage
\* was issued and returned.
C9_OneFinalIffDeleteReturned ==
    \A r \in Live :
        LET st == reqs[r] IN
        BothReturnedText(st)
        => /\ Cardinality(FinalSends(st)) <= 1
           /\ FinalIsWellFormedAndAfterDelete(st)
           /\ st.pc = "done"
              => (FinalSends(st) # {}
                  <=> \E d \in IndicesOf(st, "deleteMessage") :
                          Completed(st, d) /\ ~CallThrew(st, d))

\* Both texts came back, they differ, and the final message was sent after
\* the interim message was deleted.
C9_Witness ==
    \E r \in Live :
        LET st == reqs[r] IN
        /\ st.pc = "done" /\ BothReturnedText(st)
        /\ st.note # st.transcription
        /\ \E j \in FinalSends(st) :
               /\ st.calls[j].text = FinalText("hello", "note")
               /\ j > 1
               /\ st.calls[j - 1].op = "deleteMessage"
               /\ ~CallThrew(st, j)

\* --------------------------------------------------------------------- C10
\* A POST whose body has no voice, direct or replied-to, and no
\* callback_query.
NoVoiceNoCallback(st) ==
    /\ st.method = "POST"
    /\ Has(st.body) =>
        /\ ~Has(Val(st.body).callback_query)
        /\ Has(Val(st.body).message) =>
            LET message == Val(Val(st.body).message) IN
            /\ ~Has(message.voice)
            /\ Has(message.reply_to_message)
               => ~Has(Val(message.reply_to_message).voice)

\* C10: a POST update with neither a voice (direct or replied-to) nor a
\* callback_query issues no outbound call at all, and its one step answers
\* 200 {ok:true}.
C10_NoVoiceNoCallbackNoCalls ==
    \A r \in Live :
        LET st == reqs[r] IN
        NoVoiceNoCallback(st)
        => /\ st.calls = <<>>
           /\ st.pc \in {"start", "done"}
           /\ st.pc = "done" => st.resp = <<OkResponse>>

\* A text message that replies to a message without voice was answered
\* without any outbound call.
C10_Witness ==
    \E r \in Live :
        LET st == reqs[r] IN
        /\ NoVoiceNoCallback(st) /\ st.pc = "done"
        /\ Has(st.body) /\ Has(Val(st.body).message)
        /\ Has(Val(Val(st.body).message).reply_to_message)
        /\ st.calls = <<>> /\ st.resp = <<OkResponse>>

\* --------------------------------------------------------------------- C11
\* C11: a request whose method is not POST, whatever its body, never reads
\* its body and never issues an outbound call, and its one step answers 200
\* {ok:true}.
C11_NonPostOnlyAcknowledged ==
    \A r \in Live :
        LET st == reqs[r] IN
        st.method # "POST"
        => /\ st.calls = <<>>
           /\ ~st.bodyRead
           /\ st.pc \in {"start", "done"}
           /\ st.resp = (IF st.pc = "done" THEN <<OkResponse>> ELSE <<>>)
           /\ st.caughtInHandler = <<>>

\* A GET that carries a voice message and a callback_query was answered
\* without a call.
C11_Witness ==
    \E r \in Live :
        LET st == reqs[r] IN
        /\ st.method = "GET" /\ st.pc = "done"
        /\ Has(st.body) /\ Has(Val(st.body).message)
        /\ Has(Val(Val(st.body).message).voice)
        /\ Has(Val(st.body).callback_query)
        /\ st.calls = <<>> /\ st.resp = <<OkResponse>>

\* --------------------------------------------------------------------- C12
InterimSends(st) ==
    {i \in DOMAIN st.calls :
        st.calls[i].op = "sendMessage" /\ st.calls[i].text = ProcessingText}

\* The calls of the voice flow: all but the acknowledgement of the callback.
VoiceFlowCalls(st) ==
    {i \in DOMAIN st.calls : st.calls[i].op # "answerCallbackQuery"}

HasDirectVoice(st) ==
    /\ Has(st.body) /\ Has(Val(st.body).message)
    /\ Has(Val(Val(st.body).message).voice)

\* C12: a request issues at most one interim message, one getFile and one
\* answerCallbackQuery; when its message has a voice of its own, the file
\* and the chat processed are those of the message, whatever it replies to;
\* and answerCallbackQuery is issued only after every call of the voice flow
\* was issued and has completed.
C12_OneVoiceFlowThenOneCallbackFlow ==
    \A r \in Live :
        LET st == reqs[r] IN
        /\ Cardinality(InterimSends(st)) <= 1
        /\ Cardinality(IndicesOf(st, "getFile")) <= 1
        /\ Cardinality(IndicesOf(st, "answerCallbackQuery")) <= 1
        /\ HasDirectVoice(st)
           => LET message == Val(Val(st.body).message) IN
              /\ \A i \in IndicesOf(st, "getFile") :
                     st.calls[i] = GetFileCall(Val(message.voice).file_id)
              /\ \A i \in InterimSends(st) :
                     /\ Has(message.chat)
                     /\ st.calls[i].chat_id = Val(message.chat).id
        /\ \A a \in IndicesOf(st, "answerCallbackQuery") :
               /\ \A i \in VoiceFlowCalls(st) : i < a /\ Completed(st, i)
               /\ a = Len(st.calls)

\* A voice message that replies to another voice message and carries a
\* callback_query: the voice of the message was processed, then the callback
\* acknowledged.
C12_Witness ==
    \E r \in Live :
        LET st == reqs[r] IN
        /\ st.pc = "done" /\ HasDirectVoice(st) /\ HasCallback(st)
        /\ LET message == Val(Val(st.body).message) IN
           /\ Has(message.reply_to_message)
           /\ Has(Val(message.reply_to_message).voice)
           /\ Val(message.reply_to_message).voice # message.voice
        /\ Cardinality(InterimSends(st)) = 1
        /\ Cardinality(IndicesOf(st, "getFile")) = 1
        /\ Cardinality(IndicesOf(st, "answerCallbackQuery")) = 1
        /\ \E i \in DOMAIN st.calls : IsFinalSend(st.calls[i])

\* --------------------------------------------------------------------- C13
\* The step of the voice flow a call belongs to.
StepOf(c) ==
    IF c.op = "sendMessage"
    THEN (IF IsFinalSend(c) THEN "final" ELSE "interim")
    ELSE c.op

FlowOrder ==
    <<"interim", "getFile", "download", "transcription", "formatAsNote",
      "deleteMessage", "final">>

OrderedSteps == {FlowOrder[k] : k \in DOMAIN FlowOrder}

\* C13: the calls of the seven steps of a voice flow are its first calls, in
\* the order interim sendMessage, getFile, download, transcription,
\* reformatting, deleteMessage, final sendMessage; each is issued only when
\* all the calls before it have completed without throwing; and a call of a
\* request is issued only when the call before it has completed, so at most
\* one is outstanding.
C13_StrictlySequentialOrder ==
    \A r \in Live :
        LET st == reqs[r] IN
        /\ \A i \in DOMAIN st.calls :
               StepOf(st.calls[i]) \in OrderedSteps
               => /\ i <= Len(FlowOrder)
                  /\ StepOf(st.calls[i]) = FlowOrder[i]
                  /\ \A j \in 1..(i - 1) :
                         Completed(st, j) /\ ~CallThrew(st, j)
        /\ Len(st.calls) - Len(st.outs) \in {0, 1}
        /\ \A k \in DOMAIN st.trace :
               (st.trace[k].ev = "issue" /\ st.trace[k].n > 1)
               => /\ st.trace[k - 1].ev \in {"return", "throw"}
                  /\ st.trace[k - 1].n = st.trace[k].n - 1

\* A voice flow that issued all seven calls.
C13_Witness ==
    \E r \in Live :
        LET st == reqs[r] IN
        /\ st.pc = "done"
        /\ Len(st.calls) >= Len(FlowOrder)
        /\ \A i \in DOMAIN FlowOrder : StepOf(st.calls[i]) = FlowOrder[i]

\* --------------------------------------------------------------------- C14
AllAnswered ==
    \A r \in Live : reqs[r].pc = "done" /\ reqs[r].resp = <<OkResponse>>

\* A request with a call outstanding has sent no response, and a response,
\* once sent, is the last event of a request all of whose calls completed.
RespondsOnlyAfterItsCalls ==
    \A r \in Live :
        LET st == reqs[r] IN
        /\ Len(st.outs) < Len(st.calls) => (st.resp = <<>> /\ st.pc # "done")
        /\ st.resp # <<>>
           => /\ Len(st.outs) = Len(st.calls)
              /\ st.trace[Len(st.trace)].ev = "respond"
              /\ \A k \in 1..(Len(st.trace) - 1) : st.trace[k].ev # "respond"

\* C14: when every outbound call completes at last, every request sends its
\* response and ends; and at every moment a request with a call outstanding
\* has not responded, so that it never responds when that call never
\* completes.
C14_RespondsWhenCallsComplete == <>AllAnswered /\ []RespondsOnlyAfterItsCalls

\* A request answered after nine outbound calls, the last of which threw.
C14_Witness ==
    \E r \in Live :
        LET st == reqs[r] IN
        /\ st.pc = "done" /\ st.resp = <<OkResponse>>
        /\ Len(st.calls) = 9 /\ Len(st.outs) = 9
        /\ CallThrew(st, 9)

\* --------------------------------------------------------------------- C15
\* The request of st's method and body, run alone on st's outcomes.
RanAlone(st) ==
    IF st.pc = "start" THEN NewRequest(st.method, st.body)
    ELSE RunOn(HandlerEntry(NewRequest(st.method, st.body)), st.outs)

\* C15: however the steps of concurrent requests interleave, each request
\* is, with its calls and its response, where it would be had it run alone
\* on the same outcomes of its calls, and the audio cache is empty.
C15_RequestsIndependent ==
    /\ \A r \in Live : reqs[r] = RanAlone(reqs[r])
    /\ audioCache = <<>>

\* Two voice flows under way at once, each with a call outstanding: one
\* awaits its download while the other, started later, awaits its final
\* sendMessage.
C15_Witness ==
    /\ Live = Reqs
    /\ reqs[1].body # reqs[2].body
    /\ reqs[1].pc = "download" /\ Len(reqs[1].outs) < Len(reqs[1].calls)
    /\ reqs[2].pc = "final" /\ Len(reqs[2].outs) < Len(reqs[2].calls)
    /\ reqs[1].calls[1].chat_id # reqs[2].calls[1].chat_id

\* --------------------------------------------------------------------- C16
OnceOnlyOps ==
    {"getFile", "download", "transcription", "formatAsNote", "deleteMessage",
     "answerCallbackQuery"}

\* C16: a request issues each of getFile, download, transcription,
\* reformatting, deleteMessage and answerCallbackQuery at most once and
\* sendMessage at most twice (one interim, one final), and never issues the
\* same call a second time, in particular not after it failed.
C16_NoCallRetried ==
    \A r \in Live :
        LET st == reqs[r] IN
        /\ \A op \in OnceOnlyOps : Cardinality(IndicesOf(st, op)) <= 1
        /\ Cardinality(IndicesOf(st, "sendMessage")) <= 2
        /\ Cardinality(InterimSends(st)) <= 1
        /\ Cardinality(FinalSends(st)) <= 1
        /\ \A i, j \in DOMAIN st.calls :
               i < j => st.calls[i] # st.calls[j]

\* The final sendMessage threw and the request ended with every call of the
\* flow issued once.
C16_Witness ==
    \E r \in Live :
        LET st == reqs[r] IN
        /\ st.pc = "done"
        /\ Cardinality(IndicesOf(st, "sendMessage")) = 2
        /\ \E i \in FinalSends(st) : CallThrew(st, i)
        /\ \A op \in OnceOnlyOps \ {"answerCallbackQuery"} :
               Cardinality(IndicesOf(st, op)) = 1

\* --------------------------------------------------------------------- C17
\* C17: once deleteMessage for the interim message has returned
\* successfully, the request issues no editMessageText for that message.
C17_NoEditAfterDelete ==
    \A r \in Live :
        LET st == reqs[r] IN
        \A d \in IndicesOf(st, "deleteMessage") :
            (Completed(st, d) /\ st.outs[d].kind = "ok")
            => \A e \in IndicesOf(st, "editMessageText") :
                   (/\ st.calls[e].chat_id = st.calls[d].chat_id
                    /\ st.calls[e].message_id = st.calls[d].message_id)
                   => e < d

====
